---- MODULE Spec2Model ----
(***************************************************************************)
(* A model of ged2doc's LaTeX writer (src/ged2doc/latex_writer.py) and of  *)
(* the sizing utility (src/ged2doc/utils.py).                              *)
(*                                                                         *)
(* The record model (persons, families) is the input of the program.  A    *)
(* person is a number in Persons, None (0) is an unresolved reference.  A  *)
(* family is a record [husb, wife, chil].  The chart the tree builder      *)
(* returns is a LaTeX string; it is modelled as the sequence of the        *)
(* pieces the code concatenates (nodes, opening and closing brackets).     *)
(***************************************************************************)
EXTENDS Integers, Sequences, FiniteSets, TLC

VARIABLES
    fams,                       \* the FAM records of the input, in file order
    sexOf,                      \* person -> "M", "F" or "U" (Individual.sex)
    _descending_generations,    \* self._descending_generations
    op,                         \* the operation executed last
    args,                       \* its arguments
    ret,                        \* what it returned
    unnamed,                    \* the persons whose name parts are all empty
    output,                     \* the output argument: "path" or "stream"
    dest,                       \* the destination: is it open, what it holds
    _close,                     \* self._close
    pc,                         \* where the generation run stands
    todo,                       \* the persons the run has still to render
    paper_format,               \* the constructor's arguments
    paper_orientation,
    tree_scale,
    _paper_format,              \* self._paper_format
    _paper_orientation,         \* self._paper_orientation
    _tree_scale,                \* self._tree_scale
    stack                       \* the _addSpouses calls a chart build has pending

callVars == <<op, args, ret>>
argVars == <<paper_format, paper_orientation, tree_scale>>
selfVars == <<_paper_format, _paper_orientation, _tree_scale>>
runVars == <<unnamed, output, dest, _close, pc, todo, argVars, selfVars,
            stack>>
vars == <<fams, sexOf, _descending_generations, op, args, ret,
          unnamed, output, dest, _close, pc, todo, argVars, selfVars, stack>>

\* ---------------------------------------------------------------- bounds
NP == 5            \* persons of the record model
MaxChil == 2       \* longest CHIL list of one family
MaxGen == 2        \* largest configured descending_generations
MaxDim == 11       \* largest width and height of a box to resize
MaxBox == 5        \* largest width and height of a box to fit into
MaxMilli == 12     \* tree_scale "0.000" .. "0.012", in thousandths
MaxTenth == 25     \* tree_scale "0.0" .. "2.5", in tenths
MaxStack == 40     \* most _addSpouses calls pending at a time

None == 0
Persons == 1..NP

\* ------------------------------------------------------- the record model
\* person.sub_tags('FAMS'): the families the person is a spouse of, in order
RECURSIVE FamsFrom(_, _)
FamsFrom(person, i) ==
    IF i > Len(fams) THEN <<>>
    ELSE (IF fams[i].husb = person \/ fams[i].wife = person
          THEN <<fams[i]>> ELSE <<>>) \o FamsFrom(person, i + 1)

FAMS(person) == FamsFrom(person, 1)

\* the first family that lists the person as a child (FAMC), None if none
RECURSIVE FamcFrom(_, _)
FamcFrom(person, i) ==
    IF i > Len(fams) THEN None
    ELSE IF \E k \in 1..Len(fams[i].chil) : fams[i].chil[k] = person THEN i
    ELSE FamcFrom(person, i + 1)

\* person.father, person.mother: FAMC/HUSB and FAMC/WIFE
father(person) ==
    IF FamcFrom(person, 1) = None THEN None ELSE fams[FamcFrom(person, 1)].husb

mother(person) ==
    IF FamcFrom(person, 1) = None THEN None ELSE fams[FamcFrom(person, 1)].wife

\* writer._spouse(person, fam): the other spouse of the family
_spouse(person, fam) ==
    IF fam.husb # None /\ fam.husb = person THEN fam.wife ELSE fam.husb

\* ------------------------------------------------------- strings, errors
\* A call returns a string (out) or raises (err); a raise in any part of a
\* concatenation is a raise of the whole.
Ok(s) == [err |-> FALSE, out |-> s]
KeyError == [err |-> TRUE, out |-> <<>>]
Cat(a, b) == IF a.err \/ b.err THEN KeyError ELSE Ok(a.out \o b.out)

\* one line of LaTeX: a node 'kind[sex, id=nodeId]{name of person id}', an
\* opening 'kind{' or a closing '}', after ind blanks
Piece(t, kind, sex, id, nodeId, ind) ==
    [t |-> t, kind |-> kind, sex |-> sex, id |-> id, nodeId |-> nodeId,
     ind |-> ind]

\* indent + 'child{\n', indent + '}\n'
Open(kind, ind) == Ok(<<Piece("open", kind, "", None, "", ind)>>)
Close(ind) == Ok(<<Piece("close", "", "", None, "", ind)>>)

abs(x) == IF x < 0 THEN -x ELSE x

\* self._sexName
_sexName == [M |-> "male", F |-> "female"]

\* ------------------------------------------------------- the tree builder
_indent(gen) == IF gen < 0 THEN 4 + 2 * (abs(gen) - 1) ELSE 4 + 2 * gen

\* _node with a neutral label for a sex that self._sexName does not know
NodeNeutralSex(nodeType, person, gen, nodeId) ==
    IF person = None THEN Ok(<<>>)
    ELSE Ok(<<Piece("node", nodeType,
                    IF sexOf[person] \in DOMAIN _sexName
                    THEN _sexName[sexOf[person]] ELSE "neuter",
                    person, nodeId, _indent(gen + 1))>>)

_node(nodeType, person, gen, nodeId) ==
    IF person = None THEN Ok(<<>>)
    ELSE IF sexOf[person] \notin DOMAIN _sexName THEN KeyError
    ELSE Ok(<<Piece("node", nodeType, _sexName[sexOf[person]], person,
                    nodeId, _indent(gen + 1))>>)

RECURSIVE ChilOf(_)
ChilOf(fl) == IF fl = <<>> THEN <<>> ELSE Head(fl).chil \o ChilOf(Tail(fl))

_children(person) == IF person = None THEN <<>> ELSE ChilOf(FAMS(person))

\* the inner loop of _commonChildren: c1 once for every c2 equal to it
Matches(c1, l2) ==
    LET hits == SelectSeq(l2, LAMBDA c2 : c1 = c2)
    IN  [i \in 1..Len(hits) |-> c1]

RECURSIVE CommonLoop(_, _)
CommonLoop(l1, l2) ==
    IF l1 = <<>> THEN <<>>
    ELSE Matches(Head(l1), l2) \o CommonLoop(Tail(l1), l2)

_commonChildren(person1, person2) ==
    IF person1 = None \/ person2 = None THEN <<>>
    ELSE CommonLoop(_children(person1), _children(person2))

RECURSIVE _addSpouses(_, _, _)
RECURSIVE _addCommonChildren(_, _, _)
RECURSIVE ChildLoop(_, _)
RECURSIVE SpouseLoop(_, _, _, _, _)

\* the loop of _addCommonChildren over commonChildren
ChildLoop(cs, gen) ==
    IF cs = <<>> THEN Ok(<<>>)
    ELSE Cat(IF gen = _descending_generations
             THEN _node("c", Head(cs), gen, "")
             ELSE _addSpouses(Head(cs), gen, ""),
             ChildLoop(Tail(cs), gen))

_addCommonChildren(person1, person2, gen) ==
    IF person1 = None \/ person2 = None THEN Ok(<<>>)
    ELSE ChildLoop(_commonChildren(person1, person2), gen)

\* the loop of _addSpouses with all the children of the person under every
\* spouse
RECURSIVE SpouseLoopAllChildren(_, _, _, _, _)
SpouseLoopAllChildren(person, gen, probant, fl, spouseNumber) ==
    IF fl = <<>> THEN Ok(<<>>)
    ELSE LET spouse == _spouse(person, Head(fl))
         IN  IF spouse = None
             THEN SpouseLoopAllChildren(person, gen, probant, Tail(fl),
                                        spouseNumber)
             ELSE Cat(IF spouseNumber + 1 = 1
                      THEN Cat(_node("p", spouse, gen, ""),
                           Cat(_node("g", person, gen, probant),
                               ChildLoop(_children(person), gen + 1)))
                      ELSE Cat(Open("union", _indent(gen)),
                           Cat(_node("p", spouse, gen, ""),
                           Cat(ChildLoop(_children(person), gen + 1),
                               Close(_indent(gen))))),
                      SpouseLoopAllChildren(person, gen, probant, Tail(fl),
                                            spouseNumber + 1))

\* the loop of _addSpouses over person.sub_tags('FAMS')
SpouseLoop(person, gen, probant, fl, spouseNumber) ==
    IF fl = <<>> THEN Ok(<<>>)
    ELSE LET spouse == _spouse(person, Head(fl))
         IN  IF spouse = None
             THEN SpouseLoop(person, gen, probant, Tail(fl), spouseNumber)
             ELSE Cat(IF spouseNumber + 1 = 1
                      THEN Cat(_node("p", spouse, gen, ""),
                           Cat(_node("g", person, gen, probant),
                               _addCommonChildren(person, spouse, gen + 1)))
                      ELSE Cat(Open("union", _indent(gen)),
                           Cat(_node("p", spouse, gen, ""),
                           Cat(_addCommonChildren(person, spouse, gen + 1),
                               Close(_indent(gen))))),
                      SpouseLoop(person, gen, probant, Tail(fl),
                                 spouseNumber + 1))

\* _addSpouses without its test for the last generation
AddSpousesNoLeaf(person, gen, probant) ==
    IF gen > _descending_generations THEN Ok(<<>>)
    ELSE LET t == SpouseLoop(person, gen, probant, FAMS(person), 0)
             tree == IF ~t.err /\ Len(t.out) = 0
                     THEN _node("g", person, gen, probant)
                     ELSE t
         IN  Cat(Open("child", _indent(gen)),
                 Cat(tree, Close(_indent(gen))))

_addSpouses(person, gen, probant) ==
    IF gen > _descending_generations THEN Ok(<<>>)
    ELSE LET tree == IF gen = _descending_generations
                     THEN _node("g", person, gen, probant)
                     ELSE LET t == SpouseLoop(person, gen, probant,
                                              FAMS(person), 0)
                          IN  IF ~t.err /\ Len(t.out) = 0
                              THEN _node("g", person, gen, probant)
                              ELSE t
         IN  Cat(Open("child", _indent(gen)),
                 Cat(tree, Close(_indent(gen))))

RECURSIVE SiblingLoop(_, _, _)
SiblingLoop(siblings, person, gen) ==
    IF siblings = <<>> THEN Ok(<<>>)
    ELSE Cat(IF Head(siblings) = person
             THEN _addSpouses(Head(siblings), gen, "probant")
             ELSE _addSpouses(Head(siblings), gen, ""),
             SiblingLoop(Tail(siblings), person, gen))

_addPersonAndSiblings(person, gen) ==
    LET tree == SiblingLoop(_commonChildren(father(person), mother(person)),
                            person, gen)
    IN  IF ~tree.err /\ Len(tree.out) = 0
        THEN _addSpouses(person, gen, "probant")
        ELSE tree

\* s with n more blanks in front of its first line
Shift(s, n) ==
    IF s.err \/ s.out = <<>> THEN s
    ELSE Ok(<<[Head(s.out) EXCEPT !.ind = @ + n]>> \o Tail(s.out))

\* indent + 'parent{\n  ' + self._node('g', parent, -1) + indent + '}\n'
ParentBranch(parent) ==
    IF parent = None THEN Ok(<<>>)
    ELSE Cat(Open("parent", _indent(-1)),
             Cat(Shift(_node("g", parent, -1, ""), 2), Close(_indent(-1))))

\* _makeTree with the parent branches in front of the descendants
MakeTreeParentsFirst(person) ==
    LET tree == Cat(ParentBranch(mother(person)),
                    Cat(ParentBranch(father(person)),
                        _addPersonAndSiblings(person, 0)))
    IN  IF ~tree.err /\ Len(tree.out) > 0
        THEN Cat(Open("sandclock", 2), Cat(tree, Close(2)))
        ELSE tree

_makeTree(person) ==
    LET tree == Cat(_addPersonAndSiblings(person, 0),
                    Cat(ParentBranch(mother(person)),
                        ParentBranch(father(person))))
    IN  IF ~tree.err /\ Len(tree.out) > 0
        THEN Cat(Open("sandclock", 2), Cat(tree, Close(2)))
        ELSE tree

\* ------------------------------------------------------- utils.resize
\* Python numbers.  An int or a float is [int, frac]: its integer part and the
\* bits of its fractional part, most significant first, without trailing
\* zeros.  A float has MantBits significant bits (binary64).
MantBits == 53

Whole(n) == [int |-> n, frac |-> <<>>]

RECURSIVE BitLen(_)
BitLen(n) == IF n = 0 THEN 0 ELSE 1 + BitLen(n \div 2)

Max(S) == CHOOSE m \in S : \A n \in S : n <= m
Min(S) == CHOOSE m \in S : \A n \in S : m <= n

\* bits without its trailing zeros
Trim(bits) ==
    SubSeq(bits, 1, Max({0} \cup {i \in 1..Len(bits) : bits[i] = 1}))

\* bits + one unit in the last place: the sum and the carry out of it
Incr(bits) ==
    LET z == Max({0} \cup {i \in 1..Len(bits) : bits[i] = 0})
    IN  [bits |-> [i \in 1..Len(bits) |->
                     IF i < z THEN bits[i] ELSE IF i = z THEN 1 ELSE 0],
         carry |-> IF z = 0 THEN 1 ELSE 0]

\* 2^n modulo b
RECURSIVE Pow2Mod(_, _)
Pow2Mod(n, b) ==
    IF n = 0 THEN 1 % b
    ELSE LET h == Pow2Mod(n \div 2, b)
         IN  (h * h * (IF n % 2 = 1 THEN 2 ELSE 1)) % b

\* long division of r / b (r < b): the remainder after n bits of the
\* quotient, and the n-th bit
RemAt(r, b, n) == (r * Pow2Mod(n, b)) % b
BitAt(r, b, n) == (2 * RemAt(r, b, n - 1)) \div b

\* a / b of two ints under true division: the float nearest to the quotient,
\* ties to even
TrueDiv(a, b) ==
    LET whole == a \div b
        r == a % b
        first == CHOOSE n \in 1..(BitLen(b) + 1) :
                     BitAt(r, b, n) = 1 /\ \A k \in 1..(n - 1) : BitAt(r, b, k) = 0
        n == IF r = 0 THEN 0
             ELSE IF whole > 0 THEN MantBits - BitLen(whole)
             ELSE first + MantBits - 1
        bits == [i \in 1..n |-> BitAt(r, b, i)]
        rem == RemAt(r, b, n)
        odd == IF n = 0 THEN whole % 2 = 1 ELSE bits[n] = 1
        up == 2 * rem > b \/ (2 * rem = b /\ odd)
        inc == Incr(bits)
    IN  IF up THEN [int |-> whole + inc.carry, frac |-> Trim(inc.bits)]
        ELSE [int |-> whole, frac |-> Trim(bits)]

\* x > n and x <= n for a number x and an int n
Gt(x, n) == x.int > n \/ (x.int = n /\ x.frac # <<>>)
Le(x, n) == ~Gt(x, n)

\* x <= y for two numbers
NumLe(x, y) ==
    LET bit(f, i) == IF i <= Len(f) THEN f[i] ELSE 0
        m == Max({Len(x.frac), Len(y.frac)})
        d == {i \in 1..m : bit(x.frac, i) # bit(y.frac, i)}
    IN  \/ x.int < y.int
        \/ x.int = y.int /\ (d = {} \/ bit(x.frac, Min(d)) = 0)

\* bits * n + cin, exactly: the product's low bits and the carry out of them
RECURSIVE MulBits(_, _, _)
MulBits(bits, n, cin) ==
    IF bits = <<>> THEN [bits |-> <<>>, carry |-> cin]
    ELSE IF Len(bits) = 1
    THEN [bits |-> <<(bits[1] * n + cin) % 2>>,
          carry |-> (bits[1] * n + cin) \div 2]
    ELSE LET half == Len(bits) \div 2
             low == MulBits(SubSeq(bits, half + 1, Len(bits)), n, cin)
             high == MulBits(SubSeq(bits, 1, half), n, low.carry)
         IN  CASE low.carry >= 0 ->   \* the low half is multiplied first
                 [bits |-> high.bits \o low.bits, carry |-> high.carry]

\* x * n in exact arithmetic, for a number x and an int n
Times(x, n) ==
    LET p == MulBits(x.frac, n, 0)
    IN  [int |-> x.int * n + p.carry, frac |-> Trim(p.bits)]

\* the float nearest to x, ties to even
Float(x) ==
    LET ones == {i \in 1..Len(x.frac) : x.frac[i] = 1}
        n == IF x.int > 0 THEN MantBits - BitLen(x.int)
             ELSE IF ones = {} THEN 0
             ELSE (CHOOSE i \in ones : \A j \in ones : i <= j) + MantBits - 1
        kept == SubSeq(x.frac, 1, n)
        odd == IF n = 0 THEN x.int % 2 = 1 ELSE kept[n] = 1
        up == /\ x.frac[n + 1] = 1
              /\ odd \/ \E i \in (n + 2)..Len(x.frac) : x.frac[i] = 1
        inc == Incr(kept)
    IN  IF Len(x.frac) <= n THEN x
        ELSE IF up THEN [int |-> x.int + inc.carry, frac |-> Trim(inc.bits)]
        ELSE [int |-> x.int, frac |-> Trim(kept)]

ZeroDivisionError == [err |-> TRUE, out |-> <<"ZeroDivisionError">>]

\* resize with the floor division of Python 2 ints
ResizeFloorDiv(size, max_size, reduce_only) ==
    IF reduce_only /\ size[1] <= max_size[1] /\ size[2] <= max_size[2]
    THEN Ok(<<Whole(size[1]), Whole(size[2])>>)
    ELSE IF size[2] = 0 THEN ZeroDivisionError
    ELSE LET h == max_size[2]
             w == Whole((h * size[1]) \div size[2])
         IN  IF Gt(w, max_size[1])
             THEN IF size[1] = 0 THEN ZeroDivisionError
                  ELSE Ok(<<Whole(max_size[1]),
                            Whole((max_size[1] * size[2]) \div size[1])>>)
             ELSE Ok(<<w, Whole(h)>>)

\* resize(size, max_size, reduce_only) for boxes <<width, height>> of ints
resize(size, max_size, reduce_only) ==
    IF reduce_only /\ size[1] <= max_size[1] /\ size[2] <= max_size[2]
    THEN Ok(<<Whole(size[1]), Whole(size[2])>>)
    ELSE IF size[2] = 0 THEN ZeroDivisionError
    ELSE LET h == max_size[2]
             w == TrueDiv(h * size[1], size[2])
         IN  IF Gt(w, max_size[1])
             THEN IF size[1] = 0 THEN ZeroDivisionError
                  ELSE Ok(<<Whole(max_size[1]),
                            TrueDiv(max_size[1] * size[2], size[1])>>)
             ELSE Ok(<<w, Whole(h)>>)

\* ------------------------------------------------------------ the inputs
Husbands == {1, 3}
Wives == {None, 2, 4}
Kids == {1, 3, 5}

\* the CHIL lists of a family: up to MaxChil kids, no kid twice.  A kid is
\* listed more than once when two families list it.
Ascending(l) == \A i \in 1..Len(l) - 1 : l[i] < l[i + 1]

ChilLists == {l \in UNION {[1..n -> Kids] : n \in 0..MaxChil} : Ascending(l)}

ShortLists == {l \in ChilLists : Len(l) <= 1}

Families == [husb : Husbands, wife : Wives, chil : ChilLists]
SmallFamilies == [husb : Husbands, wife : Wives, chil : ShortLists]

F(h, w, c) == [husb |-> h, wife |-> w, chil |-> c]

\* record models: any two families; three marriages of person 1; a couple
\* and two marriages of their son
TwoFamilies == {<<a, b>> : a \in Families, b \in Families}
TwoSmallFamilies == {<<a, b>> : a \in SmallFamilies, b \in SmallFamilies}
Marriages == {<<F(1, 2, a), F(1, w, b), F(1, NP, c)>> :
                a \in ShortLists, b \in ShortLists, c \in ShortLists,
                w \in {None, 4}}
Households == {<<F(1, 2, a), F(3, 4, b), F(3, w, c)>> :
                a \in ChilLists, b \in ShortLists, c \in ShortLists,
                w \in {2, NP}}
Models == TwoFamilies \cup Marriages \cup Households
SmallModels == TwoSmallFamilies \cup Marriages

SexMaps == {[p \in Persons |-> IF p = u THEN "U"
                               ELSE IF p % 2 = 1 THEN "M" ELSE "F"]
            : u \in 0..NP}

\* ------------------------------------------------------------ operations
\* One operation is applied to the inputs drawn by Init; the operations are
\* functions of their inputs and of the record model, which they never change.
MakeTree(person) ==
    /\ op = ""
    /\ op' = "_makeTree"
    /\ args' = <<person>>
    /\ ret' = _makeTree(person)
    /\ UNCHANGED <<fams, sexOf, _descending_generations, runVars>>

CommonChildren(person1, person2) ==
    /\ op = ""
    /\ op' = "_commonChildren"
    /\ args' = <<person1, person2>>
    /\ ret' = Ok(_commonChildren(person1, person2))
    /\ UNCHANGED <<fams, sexOf, _descending_generations, runVars>>

KnownSex == {m \in SexMaps : \A p \in Persons : m[p] # "U"}

\* no call made yet; no generation run under way
NoCall == op = "" /\ args = <<>> /\ ret = Ok(<<>>) /\ stack = <<>>
Defaults ==
    /\ paper_format = "a4paper" /\ paper_orientation = "portrait"
    /\ tree_scale = [numeric |-> TRUE, neg |-> FALSE, num |-> 1, den |-> 1]
Unset ==
    /\ _paper_format = "" /\ _paper_orientation = ""
    /\ _tree_scale = [neg |-> FALSE, int |-> 0, frac |-> <<>>]
NoRun ==
    /\ unnamed = {} /\ output = "stream" /\ _close = FALSE
    /\ dest = [open |-> TRUE, data |-> <<>>] /\ pc = "idle" /\ todo = <<>>
    /\ Defaults /\ Unset

\* chart builds over record models in which every sex is known
InitTree ==
    /\ fams \in Models
    /\ sexOf \in KnownSex
    /\ _descending_generations \in -1..MaxGen
    /\ NoCall /\ NoRun

NextTree == \E person \in Persons : MakeTree(person)

SpecTree == InitTree /\ [][NextTree]_vars

\* chart builds over record models in which one person may have no known sex
InitSex ==
    /\ fams \in SmallModels
    /\ sexOf \in SexMaps
    /\ _descending_generations \in -1..MaxGen
    /\ NoCall /\ NoRun

SpecSex == InitSex /\ [][NextTree]_vars

\* _commonChildren of any two persons, resolved or not
InitCommon ==
    /\ fams \in Models
    /\ sexOf \in KnownSex
    /\ _descending_generations = 0
    /\ NoCall /\ NoRun

NextCommon ==
    \E person1 \in Persons \cup {None}, person2 \in Persons \cup {None} :
        CommonChildren(person1, person2)

SpecCommon == InitCommon /\ [][NextCommon]_vars

Resize(size, max_size, reduce_only) ==
    /\ op = ""
    /\ op' = "resize"
    /\ args' = <<size, max_size, reduce_only>>
    /\ ret' = resize(size, max_size, reduce_only)
    /\ UNCHANGED <<fams, sexOf, _descending_generations, runVars>>

\* the boxes resize is applied to: widths and heights from 0
Sizes == (0..MaxDim) \X (0..MaxDim)
MaxSizes == (0..MaxBox) \X (0..MaxBox)

InitResize ==
    /\ fams = <<>>
    /\ sexOf \in KnownSex
    /\ _descending_generations = 0
    /\ NoCall /\ NoRun

NextResize ==
    \E size \in Sizes, max_size \in MaxSizes, reduce_only \in BOOLEAN :
        Resize(size, max_size, reduce_only)

SpecResize == InitResize /\ [][NextResize]_vars

\* ------------------------------------------- a chart build, call by call
\* The calls of _addSpouses a chart build makes: a call is the person and the
\* generation it is made with.  The loops run over the finite lists of the
\* record model; a step is one call of _addSpouses, which leaves the calls
\* it makes itself pending.
Frame(person, gen) == [person |-> person, gen |-> gen]

\* _addCommonChildren: the calls for the common children of a pair
CommonChildrenCalls(person1, person2, gen) ==
    IF person1 = None \/ person2 = None THEN <<>>
    ELSE IF gen = _descending_generations THEN <<>>
    ELSE LET commonChildren == _commonChildren(person1, person2)
         IN  [i \in 1..Len(commonChildren) |-> Frame(commonChildren[i], gen)]

\* for fam in fams, handing the generation on as it is
RECURSIVE SpouseCallsSameGen(_, _, _)
SpouseCallsSameGen(person, gen, fl) ==
    IF fl = <<>> THEN <<>>
    ELSE (IF _spouse(person, Head(fl)) = None THEN <<>>
          ELSE CommonChildrenCalls(person, _spouse(person, Head(fl)), gen))
         \o SpouseCallsSameGen(person, gen, Tail(fl))

\* for fam in fams: self._addCommonChildren(person, spouse, gen+1)
RECURSIVE SpouseCalls(_, _, _)
SpouseCalls(person, gen, fl) ==
    IF fl = <<>> THEN <<>>
    ELSE (IF _spouse(person, Head(fl)) = None THEN <<>>
          ELSE CommonChildrenCalls(person, _spouse(person, Head(fl)), gen + 1))
         \o SpouseCalls(person, gen, Tail(fl))

\* _addSpouses: no call past the last generation nor at it
AddSpousesCalls(person, gen) ==
    IF gen > _descending_generations THEN <<>>
    ELSE IF gen = _descending_generations THEN <<>>
    ELSE SpouseCalls(person, gen, FAMS(person))

\* _addPersonAndSiblings(person, 0): a call a sibling, and one for the person
\* when these gave no tree
SiblingCalls(person) ==
    LET siblings == _commonChildren(father(person), mother(person))
    IN  IF siblings = <<>> \/ 0 > _descending_generations
        THEN [i \in 1..Len(siblings) |-> Frame(siblings[i], 0)] \o
             <<Frame(person, 0)>>
        ELSE [i \in 1..Len(siblings) |-> Frame(siblings[i], 0)]

BuildStart(person) ==
    /\ op = ""
    /\ op' = "build"
    /\ args' = <<person>>
    /\ stack' = SiblingCalls(person)
    /\ UNCHANGED <<fams, sexOf, _descending_generations, ret, unnamed, output,
                   dest, _close, pc, todo, argVars, selfVars>>

Expand ==
    /\ op = "build"
    /\ stack # <<>>
    /\ \E calls \in {AddSpousesCalls(Head(stack).person, Head(stack).gen)} :
          /\ Len(calls) + Len(stack) - 1 <= MaxStack
          /\ stack' = calls \o Tail(stack)
    /\ UNCHANGED <<fams, sexOf, _descending_generations, callVars, unnamed,
                   output, dest, _close, pc, todo, argVars, selfVars>>

\* record models with a person who is their own spouse
Loops == {<<F(p, p, l)>> : p \in Husbands, l \in ChilLists}
BuildModels == SmallModels \cup Loops

InitBuild ==
    /\ fams \in BuildModels
    /\ sexOf \in KnownSex
    /\ _descending_generations \in -1..MaxGen
    /\ NoCall /\ NoRun

NextBuild ==
    \/ \E person \in Persons : BuildStart(person)
    \/ Expand

\* a call that has started goes on: the build is one thread of control
SpecBuild == InitBuild /\ [][NextBuild]_vars /\ WF_vars(NextBuild)

\* ------------------------------------------------------ the generation run
\* A line of the document: what it is, whose it is, and for the chart the
\* pieces of the tree.  The LaTeX text of a line is not modelled.
Line(what, id) == [what |-> what, id |-> id, tree |-> <<>>]

\* for line in doc: self._output.write(line): every line is written and the
\* step goes on to pc_next, or a write raises and the lines before it stay
WriteLines(doc, pc_next) ==
    \E k \in 0..Len(doc) :
        /\ dest' = [dest EXCEPT !.data = @ \o SubSeq(doc, 1, k)]
        /\ pc' = IF k = Len(doc) THEN pc_next ELSE "failed"

_supportedFormats ==
    {"a0paper", "a1paper", "a2paper", "a3paper", "a4paper", "a5paper",
     "a6paper", "b0paper", "b1paper", "b2paper", "b3paper", "b4paper",
     "b5paper", "b6paper", "c0paper", "c1paper", "c2paper", "c3paper",
     "c4paper", "c5paper", "c6paper", "b0j", "b1j", "b2j", "b3j", "b4j",
     "b5j", "b6j", "ansiapaper", "ansibpaper", "ansicpaper", "ansidpaper",
     "ansiepaper", "letterpaper", "executivepaper", "legalpaper"}
_supportedOrientations == {"portrait", "landscape"}

\* A tree_scale argument: the decimal string of num / den, with its sign, or
\* a string that is no number.
Decimal(neg, num, den) ==
    [numeric |-> TRUE, neg |-> neg, num |-> num, den |-> den]
NoNumber == [numeric |-> FALSE, neg |-> FALSE, num |-> 0, den |-> 1]

\* float(tree_scale) of a decimal string: a float with its sign
float(x) ==
    LET f == TrueDiv(x.num, x.den)
    IN  [neg |-> x.neg, int |-> f.int, frac |-> f.frac]

\* the literals 2.0 and 0.01
Two == [neg |-> FALSE, int |-> 2, frac |-> <<>>]
Hundredth == float(Decimal(FALSE, 1, 100))

\* x > y and x < y for a float x and a positive float y
Above(x, y) == ~x.neg /\ ~NumLe(x, y)
Below(x, y) == x.neg \/ ~NumLe(y, x)

\* the clamp without its lower test
ClampUpperOnly(x) == IF Above(x, Two) THEN Two ELSE x

\* if self._tree_scale > 2.0: ... = 2.0; if self._tree_scale < 0.01: ... = 0.01
Clamp(x) ==
    LET upper == IF Above(x, Two) THEN Two ELSE x
    IN  IF Below(upper, Hundredth) THEN Hundredth ELSE upper

\* __init__: the paper format and orientation fall back to their defaults,
\* the tree scale is clamped, and the destination is the stream given, or
\* the file opened here
Construct ==
    /\ pc = "new"
    /\ _paper_format' = IF paper_format \in _supportedFormats
                        THEN paper_format ELSE "a4paper"
    /\ _paper_orientation' = IF paper_orientation \in _supportedOrientations
                             THEN paper_orientation ELSE "portrait"
    /\ IF ~tree_scale.numeric
       THEN pc' = "failed" /\ UNCHANGED <<_tree_scale, dest, _close>>
       ELSE /\ _tree_scale' = Clamp(float(tree_scale))
            /\ \/ /\ output = "stream"
                  /\ _close' = FALSE
                  /\ pc' = "prolog"
                  /\ UNCHANGED dest
               \/ /\ output = "path"
                  /\ \/ /\ dest' = [open |-> TRUE, data |-> <<>>]
                        /\ _close' = TRUE
                        /\ pc' = "prolog"
                     \/ /\ pc' = "failed"
                        /\ UNCHANGED <<dest, _close>>
    /\ UNCHANGED <<fams, sexOf, _descending_generations, callVars,
                   stack, argVars, unnamed, output, todo>>

RenderProlog ==
    /\ pc = "prolog"
    /\ WriteLines(<<Line("documentclass", None), Line("begin{document}", None)>>,
                  "section")
    /\ UNCHANGED <<fams, sexOf, _descending_generations, callVars,
                   stack, argVars, selfVars, unnamed, output, _close, todo>>

\* the title the run passes for a person: the person's name, empty when all
\* the name parts are
Title(person) == IF person \in unnamed THEN "" ELSE "name"

\* _render_section without its test of the title
RenderSectionAnyTitle ==
    /\ pc = "section"
    /\ WriteLines(<<Line("section", Head(todo)), Line("label", Head(todo))>>,
                  "person")
    /\ UNCHANGED <<fams, sexOf, _descending_generations, callVars,
                   stack, argVars, selfVars, unnamed, output, _close, todo>>

\* _render_section(2, ref_id, title) for the next person
RenderSection ==
    /\ pc = "section"
    /\ IF Title(Head(todo)) = ""
       THEN pc' = "person" /\ UNCHANGED dest
       ELSE WriteLines(<<Line("section", Head(todo)), Line("label", Head(todo))>>,
                       "person")
    /\ UNCHANGED <<fams, sexOf, _descending_generations, callVars,
                   stack, argVars, selfVars, unnamed, output, _close, todo>>

_make_family_tree(person) ==
    LET tree == _makeTree(person)
    IN  IF tree.err THEN tree
        ELSE Ok(<<[what |-> "genealogytree", id |-> person, tree |-> tree.out]>>)

\* the paragraphs of the person's families: a heading and a line a family
FamilyLines(person) ==
    IF FAMS(person) = <<>> THEN <<>>
    ELSE <<Line("subsubsection{Spouses and children}", person)>> \o
         [i \in 1..Len(FAMS(person)) |-> Line("family", person)]

\* a rendering that writes each part of the body as soon as it is assembled
RenderPersonStreaming ==
    /\ pc = "person"
    /\ LET person == Head(todo)
           pc_next == IF Tail(todo) = <<>> THEN "stat" ELSE "section"
       IN  IF person \in unnamed
           THEN pc' = pc_next /\ UNCHANGED dest
           ELSE \E tree_svg \in {_make_family_tree(person)} :
                   IF tree_svg.err
                   THEN /\ pc' = "failed"
                        /\ dest' = [dest EXCEPT !.data = @ \o FamilyLines(person)]
                   ELSE WriteLines(FamilyLines(person) \o
                                   <<Line("subsubsection{Ancestor tree}", person)>> \o
                                   tree_svg.out, pc_next)
    /\ todo' = Tail(todo)
    /\ UNCHANGED <<fams, sexOf, _descending_generations, callVars,
                   stack, argVars, selfVars, unnamed, output, _close>>

_render_person ==
    /\ pc = "person"
    /\ LET person == Head(todo)
           pc_next == IF Tail(todo) = <<>> THEN "stat" ELSE "section"
       IN  IF person \in unnamed
           THEN pc' = pc_next /\ UNCHANGED dest
           ELSE \E tree_svg \in {_make_family_tree(person)} :
                   IF tree_svg.err
                   THEN pc' = "failed" /\ UNCHANGED dest
                   ELSE WriteLines(FamilyLines(person) \o
                                   <<Line("subsubsection{Ancestor tree}", person)>> \o
                                   tree_svg.out, pc_next)
    /\ todo' = Tail(todo)
    /\ UNCHANGED <<fams, sexOf, _descending_generations, callVars,
                   stack, argVars, selfVars, unnamed, output, _close>>

_render_name_stat ==
    /\ pc = "stat"
    /\ WriteLines(<<Line("Person count", None), Line("Female count", None),
                    Line("Male count", None)>>, "freq")
    /\ UNCHANGED <<fams, sexOf, _descending_generations, callVars,
                   stack, argVars, selfVars, unnamed, output, _close, todo>>

_render_name_freq ==
    /\ pc = "freq"
    /\ WriteLines(<<Line("begin{multicols}", None), Line("end{multicols}", None)>>,
                  "toc")
    /\ UNCHANGED <<fams, sexOf, _descending_generations, callVars,
                   stack, argVars, selfVars, unnamed, output, _close, todo>>

_render_toc ==
    /\ pc = "toc"
    /\ pc' = "finalize"
    /\ UNCHANGED <<fams, sexOf, _descending_generations, callVars,
                   stack, argVars, selfVars, unnamed, output, dest, _close, todo>>

\* '\end{document}' is written, then the destination is closed if self._close
_finalize ==
    /\ pc = "finalize"
    /\ \/ /\ dest' = [open |-> IF _close THEN FALSE ELSE dest.open,
                       data |-> dest.data \o <<Line("end{document}", None)>>]
          /\ pc' = "done"
       \/ /\ pc' = "failed"
          /\ UNCHANGED dest
    /\ UNCHANGED <<fams, sexOf, _descending_generations, callVars,
                   stack, argVars, selfVars, unnamed, output, _close, todo>>

\* a couple and their children
SaveModels == {<<F(1, 2, l)>> : l \in ChilLists}

InitSave ==
    /\ fams \in SaveModels
    /\ sexOf \in SexMaps
    /\ _descending_generations \in 0..1
    /\ NoCall
    /\ unnamed \in {{}, {2}}
    /\ output \in {"path", "stream"}
    /\ dest = [open |-> output = "stream", data |-> <<>>]
    /\ _close = FALSE
    /\ pc = "new"
    /\ todo = [i \in 1..NP |-> i]
    /\ Defaults /\ Unset

\* save(): the fixed sequence of the render steps
save ==
    \/ Construct
    \/ RenderProlog
    \/ RenderSection
    \/ _render_person
    \/ _render_name_stat
    \/ _render_name_freq
    \/ _render_toc
    \/ _finalize

SpecSave == InitSave /\ [][save]_vars

\* the arguments the writer is constructed with
FormatArgs == _supportedFormats \cup {"bogus", ""}
OrientationArgs == _supportedOrientations \cup {"bogus", ""}
ScaleArgs ==
    {Decimal(neg, k, 1000) : neg \in BOOLEAN, k \in 0..MaxMilli} \cup
    {Decimal(neg, k, 10) : neg \in BOOLEAN, k \in 0..MaxTenth} \cup
    {NoNumber}

InitConstruct ==
    /\ fams = <<>>
    /\ sexOf \in KnownSex
    /\ _descending_generations = 2
    /\ NoCall
    /\ unnamed = {} /\ todo = <<>>
    /\ output \in {"path", "stream"}
    /\ dest = [open |-> output = "stream", data |-> <<>>]
    /\ _close = FALSE
    /\ pc = "new"
    /\ paper_format \in FormatArgs
    /\ paper_orientation \in OrientationArgs
    /\ tree_scale \in ScaleArgs
    /\ Unset

SpecConstruct == InitConstruct /\ [][Construct]_vars

\* ------------------------------------------------- reading a chart back
\* The chart of the last _makeTree call, when it returned one.
Built == op = "_makeTree" /\ ~ret.err
chart == ret.out
probe == args[1]

\* the index of the bracket closing the one opened before position j: the
\* blocks opened from j on are stepped over
RECURSIVE Match(_, _)
RECURSIVE Scan(_, _)
Scan(c, j) ==
    IF c[j].t = "close" THEN j
    ELSE Scan(c, IF c[j].t = "open" THEN Match(c, j) + 1 ELSE j + 1)

Match(c, i) == Scan(c, i + 1)

\* the positions of the direct members of the block between k and m
RECURSIVE MembersFrom(_, _, _)
MembersFrom(c, k, m) ==
    IF k >= m THEN <<>>
    ELSE <<k>> \o MembersFrom(c, IF c[k].t = "open" THEN Match(c, k) + 1
                                 ELSE k + 1, m)

Members(c, i) == MembersFrom(c, i + 1, Match(c, i))

IsNode(c, k, kind) == c[k].t = "node" /\ c[k].kind = kind
IsOpen(c, k, kind) == c[k].t = "open" /\ c[k].kind = kind

\* the 'g' nodes among the direct members of a child{...} block
OwnNodes(c, i) == SelectSeq(Members(c, i), LAMBDA k : IsNode(c, k, "g"))

\* the person a member stands for: a leaf node, or the person of a child block
Root(c, k) ==
    IF c[k].t = "node" THEN c[k].id
    ELSE IF OwnNodes(c, k) = <<>> THEN None
    ELSE c[OwnNodes(c, k)[1]].id

NodesOf(c) == {k \in 1..Len(c) : c[k].t = "node"}

\* the positions inside parent{...} branches
ParentOpens(c) == {i \in 1..Len(c) : IsOpen(c, i, "parent")}
InBlocks(c, opens, k) == \E i \in opens : i < k /\ k < Match(c, i)
InParent(c, k) == InBlocks(c, ParentOpens(c), k)

\* the generation a descendant-side node was emitted at, from its indentation
GenOf(c, k) == (c[k].ind - _indent(1)) \div 2

\* ------------------------------------------- the record model, as sets
FamiliesOf(person) ==
    {i \in 1..Len(fams) : fams[i].husb = person \/ fams[i].wife = person}

Range(l) == {l[k] : k \in 1..Len(l)}

ChildSet(person) == UNION {Range(fams[i].chil) : i \in FamiliesOf(person)}

CommonSet(person1, person2) == ChildSet(person1) \cap ChildSet(person2)

PartnerIn(person, i) ==
    IF fams[i].husb = person THEN fams[i].wife ELSE fams[i].husb

\* the resolved spouses of a person, family by family in file order
SpouseSeq(person) ==
    LET idx == SelectSeq([i \in 1..Len(fams) |-> i],
                         LAMBDA i : /\ i \in FamiliesOf(person)
                                    /\ PartnerIn(person, i) # None)
    IN  [j \in 1..Len(idx) |-> PartnerIn(person, idx[j])]

Distinct(l) == \A i \in 1..Len(l) : \A j \in 1..Len(l) : l[i] = l[j] => i = j

RootsOf(c, members) == [j \in 1..Len(members) |-> Root(c, members[j])]

ChildOpens(c) == {i \in 1..Len(c) : IsOpen(c, i, "child")}

Partners(person) ==
    {PartnerIn(person, i) : i \in FamiliesOf(person)} \ {None}

NoParents(person) == father(person) = None /\ mother(person) = None

N == _descending_generations

\* ------------------------------------------------------------------ C1
\* the elements of l1 that occur in l2, in l1's order, each once
RECURSIVE OrderedIntersection(_, _, _)
OrderedIntersection(l1, l2, seen) ==
    IF l1 = <<>> THEN <<>>
    ELSE IF Head(l1) \in Range(l2) /\ Head(l1) \notin seen
         THEN <<Head(l1)>> \o
              OrderedIntersection(Tail(l1), l2, seen \cup {Head(l1)})
         ELSE OrderedIntersection(Tail(l1), l2, seen)

\* C1: _commonChildren(P1, P2) is the ordered intersection of the child lists
\* of P1 and P2, no id more than once, and empty when a parent is missing.
C1_OrderedIntersection ==
    op = "_commonChildren" =>
        ret.out = IF args[1] = None \/ args[2] = None THEN <<>>
                  ELSE OrderedIntersection(_children(args[1]),
                                           _children(args[2]), {})

\* ------------------------------------------------------------------ C2
\* C2: with N >= 0, every descendant-side node of a chart is at a generation
\* 0..N, and a person reached at generation N is a single leaf: no spouse
\* node is emitted at generation N, and a 'g' node of generation N stands
\* alone in its child{...} block.
C2_GenerationBound ==
    (Built /\ N >= 0) =>
        LET po == ParentOpens(chart)
        IN  \A k \in NodesOf(chart) :
            ~InBlocks(chart, po, k) =>
                /\ chart[k].ind >= _indent(1)
                /\ GenOf(chart, k) <= N
                /\ chart[k].kind = "c" => GenOf(chart, k) = N
                /\ GenOf(chart, k) = N =>
                    /\ chart[k].kind \in {"g", "c"}
                    /\ chart[k].kind = "g" =>
                        /\ IsOpen(chart, k - 1, "child")
                        /\ chart[k + 1].t = "close"

\* a person who has a spouse and children is cut off at generation N
C2_Witness ==
    /\ Built /\ N >= 1
    /\ \E k \in NodesOf(chart) :
        /\ GenOf(chart, k) = N /\ ~InParent(chart, k)
        /\ Partners(chart[k].id) # {} /\ ChildSet(chart[k].id) # {}

\* ------------------------------------------------------------------ C3
\* the members of a block that stand for children
KidsAmong(c, members) ==
    SelectSeq(members, LAMBDA k : IsNode(c, k, "c") \/ IsOpen(c, k, "child"))

\* the block child{...} opened at i shows q, expanded below the last
\* generation, with the spouses sp
ExpandedAs(c, i, q, sp) ==
    LET m == Members(c, i)
        unions == SelectSeq(m, LAMBDA k : IsOpen(c, k, "union"))
        inline == SelectSeq(m, LAMBDA k : ~IsOpen(c, k, "union"))
    IN  IF sp = <<>> THEN Len(m) = 1
        ELSE /\ Len(inline) >= 2
             /\ IsNode(c, inline[1], "p") /\ c[inline[1]].id = sp[1]
             /\ IsNode(c, inline[2], "g") /\ c[inline[2]].id = q
             /\ SubSeq(inline, 3, Len(inline)) = KidsAmong(c, inline)
             /\ Range(RootsOf(c, KidsAmong(c, inline))) = CommonSet(q, sp[1])
             /\ \A a \in Range(inline) : \A u \in Range(unions) : a < u
             /\ Len(unions) = Len(sp) - 1
             /\ \A j \in 1..Len(unions) :
                 LET um == Members(c, unions[j])
                 IN  /\ um # <<>>
                     /\ IsNode(c, um[1], "p") /\ c[um[1]].id = sp[j + 1]
                     /\ Tail(um) = KidsAmong(c, um)
                     /\ Range(RootsOf(c, Tail(um))) = CommonSet(q, sp[j + 1])

\* C3: a person expanded below the last generation has the spouses of its
\* families in file order: the first one inline (spouse node, person node,
\* their common children), every later one in a union{...} block of its own
\* with that spouse's node and exactly the children common to the person and
\* that spouse.
C3_SpouseBlocks ==
    Built =>
        \A i \in ChildOpens(chart) :
            LET own == OwnNodes(chart, i)
            IN  /\ Len(own) = 1
                /\ GenOf(chart, own[1]) < N =>
                    ExpandedAs(chart, i, chart[own[1]].id,
                               SpouseSeq(chart[own[1]].id))

\* three spouses, the first two with children of their own only
C3_Witness ==
    /\ Built /\ N >= 1
    /\ LET sp == SpouseSeq(probe)
       IN  /\ Len(sp) >= 3 /\ Distinct(sp)
           /\ CommonSet(probe, sp[1]) # {} /\ CommonSet(probe, sp[2]) # {}
           /\ ChildSet(sp[1]) \cap ChildSet(sp[2]) = {}

\* ------------------------------------------------------------------ C4
\* the spouses shown in a child{...} block, inline and in its unions
SpousesShown(c, i) ==
    LET m == Members(c, i)
        unions == SelectSeq(m, LAMBDA k : IsOpen(c, k, "union"))
    IN  RootsOf(c, SelectSeq(m, LAMBDA k : IsNode(c, k, "p"))) \o
        [j \in 1..Len(unions) |-> c[unions[j] + 1].id]

\* C4: no person is expanded twice in the sibling group or among the
\* children of one pair, and no (person, spouse) pair has two spouse blocks.
C4_ExpandedOnce ==
    Built =>
        /\ chart # <<>> =>
            Distinct(RootsOf(chart, KidsAmong(chart, Members(chart, 1))))
        /\ \A i \in ChildOpens(chart) :
            /\ Distinct(SpousesShown(chart, i))
            /\ Distinct(RootsOf(chart, KidsAmong(chart, Members(chart, i))))

\* ------------------------------------------------------------------ C5
SiblingGroup(person) ==
    IF father(person) = None \/ mother(person) = None THEN <<person>>
    ELSE LET both == OrderedIntersection(_children(father(person)),
                                         _children(mother(person)), {})
         IN  IF both = <<>> THEN <<person>> ELSE both

\* C5: with N >= 0, generation 0 of the chart is the expansion of each common
\* child of the person's father and mother, in order, or of the person alone;
\* exactly one node is marked probant, and it is the person's.
C5_SiblingsAndProbant ==
    (Built /\ N >= 0) =>
        /\ RootsOf(chart, KidsAmong(chart, Members(chart, 1)))
               = SiblingGroup(probe)
        /\ Cardinality({k \in NodesOf(chart) : chart[k].nodeId = "probant"}) = 1
        /\ \A k \in NodesOf(chart) :
               chart[k].nodeId = "probant" => chart[k].id = probe

\* ------------------------------------------------------------------ C6
OneBareLeaf ==
    /\ Cardinality(NodesOf(chart)) = 1
    /\ \A k \in NodesOf(chart) :
        /\ chart[k].kind = "g" /\ chart[k].nodeId = "probant"
        /\ chart[k].id = probe
    /\ \A k \in 1..Len(chart) : chart[k].kind \notin {"union", "parent", "p"}

\* C6: for every configured generation count, the chart of a person with no
\* parents and no resolvable spouse is exactly one node, a bare leaf marked
\* probant, with no spouse node and no union wrapper.
C6_AnyCount ==
    (Built /\ NoParents(probe) /\ Partners(probe) = {}) => OneBareLeaf

\* ------------------------------------------------------------------ C7
ParentsOf(person) ==
    (IF mother(person) = None THEN <<>> ELSE <<mother(person)>>) \o
    (IF father(person) = None THEN <<>> ELSE <<father(person)>>)

\* C7: the chart ends with one parent{...} branch per resolvable parent,
\* mother first, each holding exactly the one node of that parent; there is
\* no other parent branch, so none precedes a descendant node and none
\* holds a grandparent, a spouse or a child.
C7_OneAncestorLevel ==
    Built =>
        LET ps == ParentsOf(probe)
            first == Len(chart) - 3 * Len(ps)
        IN  /\ ps # <<>> => Len(chart) >= 2 + 3 * Len(ps)
            /\ \A j \in 1..Len(ps) :
                /\ IsOpen(chart, first + 3 * (j - 1), "parent")
                /\ IsNode(chart, first + 3 * (j - 1) + 1, "g")
                /\ chart[first + 3 * (j - 1) + 1].id = ps[j]
                /\ chart[first + 3 * (j - 1) + 2].t = "close"
            /\ \A k \in 1..Len(chart) :
                IsOpen(chart, k, "parent") =>
                    \E j \in 1..Len(ps) : k = first + 3 * (j - 1)

\* both parents are resolvable, the father has a father of his own, and the
\* chart has descendants in front of the parent branches
C7_Witness ==
    /\ Built /\ N >= 1
    /\ father(probe) # None /\ mother(probe) # None
    /\ father(father(probe)) # None
    /\ Partners(probe) # {}

\* ------------------------------------------------------------------ C9
\* the persons a chart of person p shows: generation by generation the
\* expanded persons, their spouses and the children they have in common
RECURSIVE Shown(_, _)
Shown(G, g) ==
    IF g > N \/ G = {} THEN {}
    ELSE IF g = N THEN G
    ELSE G \cup UNION {Partners(q) : q \in G}
           \cup Shown(UNION {CommonSet(q, s) : <<q, s>> \in
                                {x \in G \X Persons : x[2] \in Partners(x[1])}},
                      g + 1)

Emitted(p) ==
    Shown(IF father(p) # None /\ mother(p) # None
             /\ CommonSet(father(p), mother(p)) # {}
          THEN CommonSet(father(p), mother(p)) ELSE {p}, 0)
    \cup ({father(p), mother(p)} \ {None})

\* C9: a chart build fails (a failed lookup of the sex) exactly when it has
\* to emit a node for a person whose sex is neither M nor F; a chart that is
\* returned shows only persons of sex M or F.
C9_UnknownSexFails ==
    op = "_makeTree" =>
        /\ ret.err <=> \E q \in Emitted(probe) : sexOf[q] \notin {"M", "F"}
        /\ ~ret.err =>
            /\ {chart[k].id : k \in NodesOf(chart)} = Emitted(probe)
            /\ \A k \in NodesOf(chart) :
                /\ sexOf[chart[k].id] \in {"M", "F"}
                /\ chart[k].sex \in {"male", "female"}

\* the build fails on a child of unknown sex: the person, the parents and
\* the spouses all have a known sex
C9_Witness ==
    /\ op = "_makeTree" /\ ret.err
    /\ \A q \in {probe, father(probe), mother(probe)} \cup Partners(probe) :
           q # None => sexOf[q] \in {"M", "F"}

\* ------------------------------------------------------------------ C8
Ended == pc \in {"done", "failed"}

\* C8: when a generation run has ended, well or not, a destination the
\* writer opened itself is closed; a stream the caller supplied is never
\* closed by the writer.
C8_DestinationClosed ==
    /\ (Ended /\ _close) => ~dest.open
    /\ output = "stream" => dest.open

\* ------------------------------------------------------------ resize
\* |x - n| for a number x and an int n
Dist(x, n) ==
    IF x.int >= n THEN [int |-> x.int - n, frac |-> x.frac]
    ELSE IF x.frac = <<>> THEN Whole(n - x.int)
    ELSE [int |-> n - x.int - 1,
          frac |-> Trim(Incr([i \in 1..Len(x.frac) |-> 1 - x.frac[i]]).bits)]

\* n * 2^-MantBits, the rounding unit of a float about n
RECURSIVE Pow2(_)
Pow2(k) == IF k = 0 THEN 1 ELSE 2 * Pow2(k - 1)
Ulp(n) ==
    [int |-> 0,
     frac |-> Trim([i \in 1..MantBits |->
                      IF MantBits - i >= BitLen(n) THEN 0
                      ELSE (n \div Pow2(MantBits - i)) % 2])]

\* a call resize(size, max_size, False) of boxes with positive sides
Enlarging ==
    /\ op = "resize"
    /\ ~args[3]
    /\ \A i \in 1..2 : args[1][i] > 0 /\ args[2][i] > 0

\* the box fits max_size, and the height is max_size's unless the width this
\* gives exceeds max_size's: then the width is max_size's
FitsBox ==
    /\ ~ret.err
    /\ Le(ret.out[1], args[2][1])
    /\ Le(ret.out[2], args[2][2])
    /\ ret.out[1] = Whole(args[2][1]) \/ ret.out[2] = Whole(args[2][2])
    /\ IF args[2][2] * args[1][1] > args[2][1] * args[1][2]
       THEN ret.out[1] = Whole(args[2][1])
       ELSE ret.out[2] = Whole(args[2][2])

\* w * size.height == h * size.width, as Python evaluates it on the result
SameAspect ==
    Float(Times(ret.out[1], args[1][2])) = Float(Times(ret.out[2], args[1][1]))

\* w * size.height and h * size.width, one of them an int, differ by at most
\* the rounding unit of that int
NearAspect ==
    LET l == Times(ret.out[1], args[1][2])
        r == Times(ret.out[2], args[1][1])
    IN  IF r.frac = <<>> THEN NumLe(Dist(l, r.int), Ulp(r.int))
        ELSE l.frac = <<>> /\ NumLe(Dist(r, l.int), Ulp(l.int))

Degenerate == op = "resize" /\ (args[1][1] = 0 \/ args[1][2] = 0)

\* C11: every call of resize with a size of zero width or zero height fails
\* with an InvalidDimension error, whatever reduce_only and max_size are: it
\* returns no box and does not end in a division by zero.
C11_InvalidDimension ==
    Degenerate => (ret.err /\ ret.out = <<"InvalidDimension">>)

\* ------------------------------------------------------------------ C12
\* the writer was constructed
Constructed == pc = "prolog"

\* C12: after construction the effective paper format is supported, the
\* given one if that is supported and 'a4paper' otherwise; the effective
\* orientation is 'portrait' or 'landscape', the given one if supported and
\* 'portrait' otherwise; the effective tree scale is the given number
\* clamped into [0.01, 2.0]; and no construction with a numeric tree scale
\* fails on its format or orientation: only opening the file can fail.
C12_Normalised ==
    /\ Constructed =>
        LET x == float(tree_scale)
            inside == ~x.neg /\ NumLe(Hundredth, x) /\ NumLe(x, Two)
        IN  /\ _paper_format \in _supportedFormats
            /\ paper_format \in _supportedFormats => _paper_format = paper_format
            /\ paper_format \notin _supportedFormats => _paper_format = "a4paper"
            /\ _paper_orientation \in {"portrait", "landscape"}
            /\ paper_orientation \in {"portrait", "landscape"} =>
                   _paper_orientation = paper_orientation
            /\ paper_orientation \notin {"portrait", "landscape"} =>
                   _paper_orientation = "portrait"
            /\ ~_tree_scale.neg
            /\ NumLe(Hundredth, _tree_scale) /\ NumLe(_tree_scale, Two)
            /\ inside => _tree_scale = x
            /\ (~inside /\ ~x.neg /\ NumLe(Two, x)) => _tree_scale = Two
            /\ (~inside /\ (x.neg \/ NumLe(x, Hundredth))) =>
                   _tree_scale = Hundredth
    /\ (pc = "failed" /\ tree_scale.numeric) => output = "path"

\* a writer constructed with an unsupported format, an unsupported
\* orientation and a negative tree scale
C12_Witness ==
    /\ Constructed
    /\ paper_format = "bogus" /\ paper_orientation = "bogus"
    /\ tree_scale.neg /\ tree_scale.num > 0

\* ------------------------------------------------------------------ C13
\* C13: the section step and the person step of a person whose name parts
\* are all empty write nothing: the output is what it was before the step,
\* with no section header and no part of a person body added.
C13_UnnamedSkipped ==
    [][(pc \in {"section", "person"} /\ Head(todo) \in unnamed) =>
          dest' = dest]_vars

\* the run has passed a person without a name and has written the sections
\* of other persons
C13_Witness ==
    /\ unnamed # {} /\ pc = "section"
    /\ \A p \in unnamed : \A i \in 1..Len(todo) : todo[i] # p
    /\ \E i \in 1..Len(dest.data) : dest.data[i].what = "section"

\* ------------------------------------------------------------------ C14
\* the calls the step from the pending calls s to the pending calls t made
NewCalls(s, t) == SubSeq(t, 1, Len(t) - Len(s) + 1)

\* C14: a chart build that has started comes to its end, for every record
\* model, cyclic ones included, and every generation count; every call made
\* by a call of _addSpouses has the next generation, and a call at or above
\* the maximum makes none.
C14_Terminates ==
    /\ (op = "build") ~> (op = "build" /\ stack = <<>>)
    /\ [][(op = "build" /\ op' = "build") =>
            /\ \A i \in 1..Len(NewCalls(stack, stack')) :
                  NewCalls(stack, stack')[i].gen = Head(stack).gen + 1
            /\ Head(stack).gen >= _descending_generations =>
                  stack' = Tail(stack)]_vars

\* the build of a person who is their own spouse and their own child has
\* ended, with the largest generation count
C14_Witness ==
    /\ op = "build" /\ stack = <<>>
    /\ _descending_generations = MaxGen
    /\ fams \in Loops
    /\ fams[1].husb = args[1] /\ \E i \in 1..Len(fams[1].chil) : fams[1].chil[i] = args[1]

\* ------------------------------------------------------------------ C15
\* the person whose body the last person step rendered
Rendered == NP - Len(todo)

\* the body of a person as _render_person assembles it
Body(person) ==
    FamilyLines(person) \o <<Line("subsubsection{Ancestor tree}", person)>> \o
    _make_family_tree(person).out

\* s is t with nothing or a first part of doc after it
Appended(s, t, doc) ==
    \E k \in 0..Len(doc) : s = t \o SubSeq(doc, 1, k)

\* C15: a person step whose assembly fails (the person has a name and the
\* chart build raises) leaves
\* the output as it was before the step, and a person step that writes
\* anything writes lines of the wholly assembled body, chart included, and
\* nothing else.
C15_AllOrNothing ==
    [][pc = "person" =>
         /\ (Head(todo) \notin unnamed /\ _make_family_tree(Head(todo)).err) =>
               (dest' = dest /\ pc' = "failed")
         /\ dest' # dest =>
               /\ Head(todo) \notin unnamed
               /\ ~ _make_family_tree(Head(todo)).err
               /\ dest'.open = dest.open
               /\ Appended(dest'.data, dest.data, Body(Head(todo)))]_vars

\* the run failed in the person step of a named person with families whose
\* chart build raises: the output ends with that person's section header
C15_Witness ==
    /\ pc = "failed" /\ Rendered \in 1..NP
    /\ Rendered \notin unnamed
    /\ FAMS(Rendered) # <<>>
    /\ _make_family_tree(Rendered).err
    /\ dest.data # <<>>
    /\ dest.data[Len(dest.data)].id = Rendered
    /\ dest.data[Len(dest.data)].what = "label"

====
